---- MODULE Spec2Model ----
(***************************************************************************)
(* One invocation of the OpenBook v1 command dispatcher (src/src/main.rs): *)
(* main, handle_order_return, show_tx, execute_limited_cancel and          *)
(* parse_open_orders.  The order-book client and the RPC client are        *)
(* collaborators outside the repository: every call to them is recorded in *)
(* the trace `calls`, and its result is a nondeterministic choice.         *)
(***************************************************************************)
EXTENDS Integers, Sequences, FiniteSets, TLC

(* ---------------- program constants (main.rs:19-21) ---------------- *)
CRANK_DELAY_MS == 50000
MAX_CANCEL_ORDERS == 5
MAX_CANCEL_ORDERS_PER_TX == 5

(* ---------------- bounds of the model ---------------- *)
\* longest instruction batch the cancel builder returns
MaxInsts == 7
\* largest global cap / per-transaction cap tried on execute_limited_cancel
MaxG == 6
MaxP == 3
\* longest explicit --open-orders list, longest event-queue scan result
MaxOO == 3
MaxScan == 2
\* granularity with which time passes during the settle delay
TickMs == 25000

VARIABLES
    cli,                      \* the parsed command line (Cli, main.rs:235)
    pc,                       \* position of the single flow of control
    calls,                    \* trace of collaborator calls and sleeps
    logs,                     \* lines written with info!/error!/eprintln!
    outcome,                  \* "running", "ok", "err" (main returned Err), "panic"
    error,                    \* the error main returned, <<>> if none
    max_instructions,         \* execute_limited_cancel: parameter
    max_instructions_per_tx,  \* execute_limited_cancel: parameter
    insts,                    \* execute_limited_cancel: insts
    pos,                      \* execute_limited_cancel: instructions consumed by chunks()
    last_sig,                 \* execute_limited_cancel: last_sig (Option)
    elc_result,               \* execute_limited_cancel: returned value
    open_orders,              \* main: the resolved open_orders of Consume*
    signature,                \* show_tx: parameter (Option, <<>> before the call)
    timer                     \* show_tx: milliseconds of the sleep still to pass

vars == <<cli, pc, calls, logs, outcome, error, max_instructions,
          max_instructions_per_tx, insts, pos, last_sig, elc_result,
          open_orders, signature, timer>>

elc_vars == <<max_instructions, max_instructions_per_tx, insts, pos,
              last_sig, elc_result>>

(* ---------------- values ---------------- *)
None == <<>>
Some(x) == <<x>>

Min(a, b) == IF a < b THEN a ELSE b
Max(a, b) == IF a > b THEN a ELSE b

\* argument strings of --open-orders: two that are base58 public keys and two
\* that are not
KeyStrings == {"key1", "key2", "bad!", "0OIl"}
\* the caller's own open-orders account (ob_client.open_orders.oo_key)
oo_key == 9
Pubkeys == {1, 2, oo_key}

\* Pubkey::from_str: the key a string denotes, or Err
Pubkey_from_str(s) ==
    CASE s = "key1" -> [ok |-> TRUE, key |-> 1, err |-> ""]
      [] s = "key2" -> [ok |-> TRUE, key |-> 2, err |-> ""]
      [] OTHER      -> [ok |-> FALSE, key |-> 0, err |-> s]

SeqsUpTo(S, n) == UNION {[1..k -> S] : k \in 0..n}

\* the instruction batch of length L the cancel builder returns: L distinct
\* opaque instructions, named by their place in the batch
Batch(L) == [i \in 1..L |-> i]

(* ---------------- the trace ---------------- *)
\* a call record: operation, argument, result ("pending" while awaited),
\* and the signature or value it returned
Call(op, arg, res, val) == [op |-> op, arg |-> arg, res |-> res, val |-> val]

\* signatures are opaque and fresh: the signature a call returns is named by
\* the call's place in the trace
FreshSig == Len(calls) + 1

CallsOf(op) == {i \in 1..Len(calls) : calls[i].op = op}

(* ---------------- collaborator results ---------------- *)
\* Result<Option<OrderReturnType>> of place_limit_order / cancel_orders /
\* settle_balance: Err, Ok(None), Ok(Some(Instructions(v))), Ok(Some(Signature(s)))
OrderReturn(tag, v, s) == [tag |-> tag, insts |-> v, sig |-> s]
OrderReturns ==
    {OrderReturn("Err", <<>>, 0), OrderReturn("None", <<>>, 0),
     OrderReturn("Signature", <<>>, FreshSig)}
    \cup {OrderReturn("Instructions", Batch(L), 0) : L \in 0..MaxInsts}

(* ---------------- execute_limited_cancel (main.rs:462-492) ---------------- *)
NotReturned == [tag |-> "NotReturned", value |-> None]
Ok(v) == [tag |-> "Ok", value |-> v]
Err(e) == [tag |-> "Err", value |-> <<e>>]

\* Truncate with the cap off by one: keeps n + 1 elements
Truncate_OffByOne(v, n) == SubSeq(v, 1, Min(Len(v), n + 1))

\* Vec::truncate(n): keeps the first n elements, no effect if n >= len
Truncate(v, n) == SubSeq(v, 1, Min(Len(v), n))

\* the chunk size handed to chunks(): max_instructions_per_tx.max(1)
ChunkSize(p) == Max(p, 1)

\* the slice the chunks(n) iterator yields once `p` elements are consumed
NextChunk(v, p, n) == SubSeq(v, p + 1, Min(p + n, Len(v)))

\* lines 467-480: call the cancel builder, unwrap its result, truncate
ELC_Build ==
    /\ pc = "elc_entry"
    /\ \E r \in OrderReturns :
         /\ calls' = Append(calls, Call("cancel_orders", FALSE,
                                        IF r.tag = "Err" THEN "err" ELSE "ok", r))
         /\ IF r.tag = "Err"
            THEN /\ elc_result' = Err("cancel_orders")
                 /\ pc' = "elc_ret"
                 /\ UNCHANGED <<insts, pos, last_sig>>
            ELSE IF r.tag # "Instructions" \/ r.insts = <<>>
            THEN /\ elc_result' = Ok(None)
                 /\ pc' = "elc_ret"
                 /\ UNCHANGED <<insts, pos, last_sig>>
            ELSE /\ insts' = Truncate(r.insts, max_instructions)
                 /\ pos' = 0
                 /\ last_sig' = None
                 /\ pc' = "elc_loop"
                 /\ UNCHANGED elc_result
    /\ UNCHANGED <<cli, logs, outcome, error, max_instructions,
                   max_instructions_per_tx, open_orders, signature, timer>>

\* ELC_Send without the await: the submission is started and the loop goes on
\* to the next chunk while it is still pending
ELC_Send_NotAwaited ==
    /\ pc = "elc_loop"
    /\ pos < Len(insts)
    /\ calls' = Append(calls,
                  Call("send_and_confirm",
                       NextChunk(insts, pos, ChunkSize(max_instructions_per_tx)),
                       "pending", 0))
    /\ pos' = pos + Len(NextChunk(insts, pos, ChunkSize(max_instructions_per_tx)))
    /\ UNCHANGED <<cli, pc, logs, outcome, error, open_orders, signature, timer,
                   max_instructions, max_instructions_per_tx, insts, last_sig,
                   elc_result>>

\* lines 483-487: the iterator yields a chunk; send_and_confirm is called on
\* it and awaited
ELC_Send ==
    /\ pc = "elc_loop"
    /\ pos < Len(insts)
    /\ calls' = Append(calls,
                  Call("send_and_confirm",
                       NextChunk(insts, pos, ChunkSize(max_instructions_per_tx)),
                       "pending", 0))
    /\ pc' = "elc_await"
    /\ UNCHANGED <<cli, logs, outcome, error, open_orders, signature, timer>>
    /\ UNCHANGED elc_vars

\* ELC_Confirmed keeping the first signature instead of the last
ELC_Confirmed_FirstSig ==
    /\ pc = "elc_await"
    /\ calls' = [calls EXCEPT ![Len(calls)].res = "ok", ![Len(calls)].val = Len(calls)]
    /\ last_sig' = IF last_sig = None THEN Some(Len(calls)) ELSE last_sig
    /\ pos' = pos + Len(calls[Len(calls)].arg)
    /\ pc' = "elc_loop"
    /\ UNCHANGED <<cli, logs, outcome, error, open_orders, signature, timer,
                   max_instructions, max_instructions_per_tx, insts, elc_result>>

\* lines 487-488: the awaited call returned Ok((_, signature))
ELC_Confirmed ==
    /\ pc = "elc_await"
    /\ calls' = [calls EXCEPT ![Len(calls)].res = "ok", ![Len(calls)].val = Len(calls)]
    /\ last_sig' = Some(Len(calls))
    /\ pos' = pos + Len(calls[Len(calls)].arg)
    /\ pc' = "elc_loop"
    /\ UNCHANGED <<cli, logs, outcome, error, open_orders, signature, timer,
                   max_instructions, max_instructions_per_tx, insts, elc_result>>

\* ELC_SendFailed retrying the chunk once before giving up
ELC_SendFailed_RetryOnce ==
    /\ pc = "elc_await"
    /\ calls' = [calls EXCEPT ![Len(calls)].res = "err"]
    /\ IF \A i \in 1..(Len(calls) - 1) : calls[i].res # "err"
       THEN pc' = "elc_loop" /\ UNCHANGED elc_result
       ELSE elc_result' = Err("send_and_confirm") /\ pc' = "elc_ret"
    /\ UNCHANGED <<cli, logs, outcome, error, open_orders, signature, timer,
                   max_instructions, max_instructions_per_tx, insts, pos, last_sig>>

\* ELC_SendFailed swallowing the error: the loop goes on with the next chunk
ELC_SendFailed_Continue ==
    /\ pc = "elc_await"
    /\ calls' = [calls EXCEPT ![Len(calls)].res = "err"]
    /\ pos' = pos + Len(calls[Len(calls)].arg)
    /\ pc' = "elc_loop"
    /\ UNCHANGED <<cli, logs, outcome, error, open_orders, signature, timer,
                   max_instructions, max_instructions_per_tx, insts, last_sig,
                   elc_result>>

\* line 487: the awaited call returned Err, `?` returns it
ELC_SendFailed ==
    /\ pc = "elc_await"
    /\ calls' = [calls EXCEPT ![Len(calls)].res = "err"]
    /\ elc_result' = Err("send_and_confirm")
    /\ pc' = "elc_ret"
    /\ UNCHANGED <<cli, logs, outcome, error, open_orders, signature, timer,
                   max_instructions, max_instructions_per_tx, insts, pos, last_sig>>

\* ELC_Return giving the signature of the first submission
ELC_Return_FirstSig ==
    /\ pc = "elc_loop"
    /\ pos >= Len(insts)
    /\ elc_result' =
         Ok(IF last_sig = None THEN None
            ELSE Some(CHOOSE i \in CallsOf("send_and_confirm") :
                        \A j \in CallsOf("send_and_confirm") : i <= j))
    /\ pc' = "elc_ret"
    /\ UNCHANGED <<cli, calls, logs, outcome, error, open_orders, signature, timer,
                   max_instructions, max_instructions_per_tx, insts, pos, last_sig>>

\* lines 483, 491: the iterator is exhausted, Ok(last_sig)
ELC_Return ==
    /\ pc = "elc_loop"
    /\ pos >= Len(insts)
    /\ elc_result' = Ok(last_sig)
    /\ pc' = "elc_ret"
    /\ UNCHANGED <<cli, calls, logs, outcome, error, open_orders, signature, timer,
                   max_instructions, max_instructions_per_tx, insts, pos, last_sig>>

NextELC ==
    \/ ELC_Build
    \/ ELC_Send
    \/ ELC_Confirmed
    \/ ELC_SendFailed
    \/ ELC_Return

\* execute_limited_cancel called with any caps (usize, so 0 included)
InitELC ==
    /\ cli = [command |-> "Cancel", market_id |-> "key1", execute |-> TRUE]
    /\ pc = "elc_entry"
    /\ calls = <<>>
    /\ logs = <<>>
    /\ outcome = "running"
    /\ error = <<>>
    /\ max_instructions \in 0..MaxG
    /\ max_instructions_per_tx \in 0..MaxP
    /\ insts = <<>>
    /\ pos = 0
    /\ last_sig = None
    /\ elc_result = NotReturned
    /\ open_orders = <<>>
    /\ signature = None
    /\ timer = 0

SpecELC == InitELC /\ [][NextELC]_vars

(* ---------------- the command line (main.rs:31-216) ---------------- *)
MarketIds == {"key1", "bad!"}
Sides == {"bid", "ask", "ASK", "Bid", "buy"}
Limits == {1, 10}

Clis ==
    [command : {"Info", "EventQueue", "LoadOrders", "FindOpenOrders",
                "CancelSettlePlace", "CancelSettlePlaceBid",
                "CancelSettlePlaceAsk"},
     market_id : MarketIds]
    \cup [command : {"Place"}, market_id : MarketIds, side : Sides,
          execute : BOOLEAN]
    \cup [command : {"Cancel", "Settle"}, market_id : MarketIds,
          execute : BOOLEAN]
    \cup [command : {"Match"}, market_id : MarketIds, limit : Limits]
    \cup [command : {"Consume", "ConsumePermissioned"}, market_id : MarketIds,
          limit : Limits, open_orders : SeqsUpTo(KeyStrings, MaxOO)]

(* ---------------- parse_open_orders (main.rs:494-502) ---------------- *)
RECURSIVE parse_from(_, _, _)
\* the loop of lines 496-500 from entry i on, `keys` pushed so far
parse_from(inputs, i, keys) ==
    IF i > Len(inputs)
    THEN [ok |-> TRUE, keys |-> keys, key |-> ""]
    ELSE LET parsed == Pubkey_from_str(inputs[i]) IN
         IF parsed.ok
         THEN parse_from(inputs, i + 1, Append(keys, parsed.key))
         ELSE [ok |-> FALSE, keys |-> <<>>, key |-> inputs[i]]

\* parse_open_orders dropping the entries that do not parse
parse_open_orders_lossy(inputs) ==
    LET good == SelectSeq(inputs, LAMBDA k : Pubkey_from_str(k).ok) IN
    [ok |-> TRUE, keys |-> [i \in 1..Len(good) |-> Pubkey_from_str(good[i]).key],
     key |-> ""]

parse_open_orders(inputs) == parse_from(inputs, 1, <<>>)

(* ---------------- main (main.rs:218-415) ---------------- *)
\* `?` on an Err: main returns it
Fail(e) ==
    /\ outcome' = "err"
    /\ error' = e
    /\ pc' = "done"

\* line 414: Ok(())
Finish ==
    /\ outcome' = "ok"
    /\ pc' = "done"
    /\ UNCHANGED error

\* a call of show_tx(&mut ob_client, &sig)
EnterShowTx(sig) ==
    /\ signature' = Some(sig)
    /\ pc' = "show_tx"
    /\ UNCHANGED <<outcome, error>>

\* line 241: cli.market_id.parse()?
ParseMarketId ==
    /\ pc = "main"
    /\ IF Pubkey_from_str(cli.market_id).ok
       THEN pc' = "new_client" /\ UNCHANGED <<outcome, error>>
       ELSE Fail(<<"market_id", cli.market_id>>)
    /\ UNCHANGED <<cli, calls, logs, open_orders, signature, timer>>
    /\ UNCHANGED elc_vars

\* lines 242-248: OBClient::new(..).await?
NewClient ==
    /\ pc = "new_client"
    /\ \E ok \in BOOLEAN :
         /\ calls' = Append(calls, Call("OBClient::new", cli.market_id,
                                        IF ok THEN "ok" ELSE "err", 0))
         /\ IF ok THEN pc' = "dispatch" /\ UNCHANGED <<outcome, error>>
                  ELSE Fail(<<"OBClient::new">>)
    /\ UNCHANGED <<cli, logs, open_orders, signature, timer>>
    /\ UNCHANGED elc_vars

\* lines 251-253
Info ==
    /\ pc = "dispatch" /\ cli.command = "Info"
    /\ logs' = Append(logs, <<"OB_V1_Client">>)
    /\ Finish
    /\ UNCHANGED <<cli, calls, open_orders, signature, timer>>
    /\ UNCHANGED elc_vars

\* lines 255-262
EventQueue ==
    /\ pc = "dispatch" /\ cli.command = "EventQueue"
    /\ \E ok \in BOOLEAN, count \in 0..1 :
         /\ calls' = Append(calls, Call("fetch_event_queue_stats", 0,
                                        IF ok THEN "ok" ELSE "err", count))
         /\ IF ok
            THEN /\ logs' = Append(logs, <<"Event queue stats", count, count > 0>>)
                 /\ Finish
            ELSE /\ Fail(<<"fetch_event_queue_stats">>)
                 /\ UNCHANGED logs
    /\ UNCHANGED <<cli, open_orders, signature, timer>>
    /\ UNCHANGED elc_vars

\* handle_order_return calling show_tx whatever the variant is
handle_order_return_AlwaysWait(ord_ret_type) ==
    /\ logs' = Append(logs, <<"Transaction successful", ord_ret_type.sig>>)
    /\ EnterShowTx(ord_ret_type.sig)

\* handle_order_return (main.rs:417-431), up to the call of show_tx
handle_order_return(ord_ret_type) ==
    IF ord_ret_type.tag = "Instructions"
    THEN /\ logs' = Append(logs, <<"Got Instructions", ord_ret_type.insts>>)
         /\ Finish
         /\ UNCHANGED signature
    ELSE /\ logs' = Append(logs, <<"Transaction successful", ord_ret_type.sig>>)
         /\ EnterShowTx(ord_ret_type.sig)

\* `if let Some(ord_ret_type) = <call>.await? { handle_order_return(..).await?; }`
OrderReturnArm(op, arg, rets) ==
    /\ \E r \in rets :
         /\ calls' = Append(calls, Call(op, arg,
                                        IF r.tag = "Err" THEN "err" ELSE "ok", r))
         /\ CASE r.tag = "Err" -> Fail(<<op>>) /\ UNCHANGED <<logs, signature>>
              [] r.tag = "None" -> Finish /\ UNCHANGED <<logs, signature>>
              [] OTHER -> handle_order_return(r)
    /\ UNCHANGED <<cli, open_orders, timer>>
    /\ UNCHANGED elc_vars

\* str::to_ascii_lowercase on the side strings
to_ascii_lowercase(s) ==
    CASE s = "ASK" -> "ask"
      [] s = "Bid" -> "bid"
      [] OTHER -> s

\* SideOf comparing the string as given, without lowering it
SideOf_CaseSensitive(s) ==
    CASE s = "bid" -> "Bid"
      [] s = "ask" -> "Ask"
      [] OTHER -> "Bid"

\* lines 265-269
SideOf(s) ==
    CASE to_ascii_lowercase(s) = "bid" -> "Bid"
      [] to_ascii_lowercase(s) = "ask" -> "Ask"
      [] OTHER -> "Bid"

\* what place_limit_order may return (the order-book client, spec sections 3
\* and 8): without execute it only builds, so its result is never a signature
place_limit_order_returns(execute) ==
    IF execute THEN OrderReturns
               ELSE {r \in OrderReturns : r.tag # "Signature"}

\* lines 264-283
Place ==
    /\ pc = "dispatch" /\ cli.command = "Place"
    /\ OrderReturnArm("place_limit_order",
                      [side |-> SideOf(cli.side), execute |-> cli.execute],
                      place_limit_order_returns(cli.execute))

\* CancelExecute with the global cap computed as the sum of the two caps
CancelExecute_CapsAdded ==
    /\ pc = "dispatch" /\ cli.command = "Cancel" /\ cli.execute
    /\ max_instructions' = MAX_CANCEL_ORDERS + MAX_CANCEL_ORDERS_PER_TX
    /\ max_instructions_per_tx' = MAX_CANCEL_ORDERS_PER_TX
    /\ pc' = "elc_entry"
    /\ UNCHANGED <<cli, calls, logs, outcome, error, insts, pos, last_sig,
                   elc_result, open_orders, signature, timer>>

\* lines 285-296: Cancel with execute, the call of execute_limited_cancel
CancelExecute ==
    /\ pc = "dispatch" /\ cli.command = "Cancel" /\ cli.execute
    /\ max_instructions' = MAX_CANCEL_ORDERS
    /\ max_instructions_per_tx' = MAX_CANCEL_ORDERS_PER_TX
    /\ pc' = "elc_entry"
    /\ UNCHANGED <<cli, calls, logs, outcome, error, insts, pos, last_sig,
                   elc_result, open_orders, signature, timer>>

\* CancelExecuted taking a failure of execute_limited_cancel for "no signature"
CancelExecuted_ErrAsNone ==
    /\ pc = "elc_ret"
    /\ CASE elc_result.tag = "Err" \/ elc_result.value = None ->
              Finish /\ UNCHANGED <<logs, signature>>
         [] OTHER ->
              /\ logs' = Append(logs, <<"Transaction successful", elc_result.value[1]>>)
              /\ EnterShowTx(elc_result.value[1])
    /\ UNCHANGED <<cli, calls, open_orders, timer>>
    /\ UNCHANGED elc_vars

\* lines 287-296: the value execute_limited_cancel returned
CancelExecuted ==
    /\ pc = "elc_ret"
    /\ CASE elc_result.tag = "Err" ->
              Fail(elc_result.value) /\ UNCHANGED <<logs, signature>>
         [] elc_result.tag = "Ok" /\ elc_result.value = None ->
              Finish /\ UNCHANGED <<logs, signature>>
         [] OTHER ->
              /\ logs' = Append(logs, <<"Transaction successful", elc_result.value[1]>>)
              /\ EnterShowTx(elc_result.value[1])
    /\ UNCHANGED <<cli, calls, open_orders, timer>>
    /\ UNCHANGED elc_vars

\* lines 297-299: Cancel without execute
CancelBuild ==
    /\ pc = "dispatch" /\ cli.command = "Cancel" /\ ~cli.execute
    /\ OrderReturnArm("cancel_orders", FALSE, OrderReturns)

\* lines 302-306
Settle ==
    /\ pc = "dispatch" /\ cli.command = "Settle"
    /\ OrderReturnArm("settle_balance", cli.execute, OrderReturns)

\* Result<(bool, Signature)> of the composite calls
PairReturns ==
    {[ok |-> FALSE, confirmed |-> FALSE, sig |-> 0]}
    \cup {[ok |-> TRUE, confirmed |-> c, sig |-> FreshSig] : c \in BOOLEAN}

\* PairArm branching on the confirmed flag: show_tx only for a confirmed
\* transaction
PairArm_IfConfirmed(op, arg) ==
    /\ \E r \in PairReturns :
         /\ calls' = Append(calls, Call(op, arg, IF r.ok THEN "ok" ELSE "err", r))
         /\ IF r.ok /\ r.confirmed
            THEN /\ logs' = Append(logs, <<"Transaction successful", r.sig>>)
                 /\ EnterShowTx(r.sig)
            ELSE IF r.ok
            THEN /\ Finish
                 /\ UNCHANGED <<logs, signature>>
            ELSE /\ Fail(<<op>>)
                 /\ UNCHANGED <<logs, signature>>
    /\ UNCHANGED <<cli, open_orders, timer>>
    /\ UNCHANGED elc_vars

\* `let (_confirmed, signature) = <call>.await?; info!(..); show_tx(..).await?;`
PairArm(op, arg) ==
    /\ \E r \in PairReturns :
         /\ calls' = Append(calls, Call(op, arg, IF r.ok THEN "ok" ELSE "err", r))
         /\ IF r.ok
            THEN /\ logs' = Append(logs, <<"Transaction successful", r.sig>>)
                 /\ EnterShowTx(r.sig)
            ELSE /\ Fail(<<op>>)
                 /\ UNCHANGED <<logs, signature>>
    /\ UNCHANGED <<cli, open_orders, timer>>
    /\ UNCHANGED elc_vars

\* lines 308-313
Match ==
    /\ pc = "dispatch" /\ cli.command = "Match"
    /\ PairArm("match_orders_transaction", cli.limit)

\* lines 315-326
CancelSettlePlace ==
    /\ pc = "dispatch" /\ cli.command = "CancelSettlePlace"
    /\ PairArm("cancel_settle_place", 0)

\* lines 328-337
CancelSettlePlaceBid ==
    /\ pc = "dispatch" /\ cli.command = "CancelSettlePlaceBid"
    /\ PairArm("cancel_settle_place_bid", 0)

\* lines 339-348
CancelSettlePlaceAsk ==
    /\ pc = "dispatch" /\ cli.command = "CancelSettlePlaceAsk"
    /\ PairArm("cancel_settle_place_ask", 0)

\* Result<Vec<Pubkey>> of collect_event_queue_open_orders
ScanReturns ==
    {[ok |-> FALSE, owners |-> <<>>]}
    \cup {[ok |-> TRUE, owners |-> o] : o \in SeqsUpTo(Pubkeys, MaxScan)}

\* ScanNeeded scanning whatever the explicit list holds
ScanNeeded_Always(arg_open_orders) == TRUE

\* lines 351, 370: arg.open_orders.is_empty()
ScanNeeded(arg_open_orders) == arg_open_orders = <<>>

\* OwnersOrSelf without the fallback to the caller's own account
OwnersOrSelf_NoFallback(owners) == owners

\* lines 355-358, 374-377: the scan result, or the caller's own account
OwnersOrSelf(owners) ==
    IF owners = <<>> THEN Append(owners, oo_key) ELSE owners

\* lines 351-361, 370-380: `let open_orders = if .. { scan } else { parse }`
ResolveOpenOrders ==
    /\ IF ScanNeeded(cli.open_orders)
       THEN \E r \in ScanReturns :
              \* `arg.limit as usize` widens a u16: the value is unchanged
              /\ calls' = Append(calls, Call("collect_event_queue_open_orders",
                                             cli.limit,
                                             IF r.ok THEN "ok" ELSE "err",
                                             r.owners))
              /\ IF r.ok
                 THEN /\ open_orders' = OwnersOrSelf(r.owners)
                      /\ pc' = "consume_call"
                      /\ UNCHANGED <<outcome, error>>
                 ELSE /\ Fail(<<"collect_event_queue_open_orders">>)
                      /\ UNCHANGED open_orders
       ELSE LET parsed == parse_open_orders(cli.open_orders) IN
              /\ UNCHANGED calls
              /\ IF parsed.ok
                 THEN /\ open_orders' = parsed.keys
                      /\ pc' = "consume_call"
                      /\ UNCHANGED <<outcome, error>>
                 ELSE /\ Fail(<<"Invalid open orders pubkey", parsed.key>>)
                      /\ UNCHANGED open_orders
    /\ UNCHANGED <<cli, logs, signature, timer>>
    /\ UNCHANGED elc_vars

\* the consume call on the resolved accounts and what follows it
ConsumeCall(op) ==
    /\ \E r \in PairReturns :
         /\ calls' = Append(calls, Call(op, [accounts |-> open_orders,
                                             limit |-> cli.limit],
                                        IF r.ok THEN "ok" ELSE "err", r))
         /\ IF r.ok
            THEN /\ logs' = Append(logs, <<"Transaction successful", r.sig>>)
                 /\ EnterShowTx(r.sig)
            ELSE /\ Fail(<<op>>)
                 /\ UNCHANGED <<logs, signature>>
    /\ UNCHANGED <<cli, open_orders, timer>>
    /\ UNCHANGED elc_vars

\* lines 350-361
ConsumeResolve ==
    /\ pc = "dispatch" /\ cli.command = "Consume"
    /\ ResolveOpenOrders

\* lines 362-366
Consume ==
    /\ pc = "consume_call" /\ cli.command = "Consume"
    /\ ConsumeCall("consume_events_instruction")

\* lines 369-380
ConsumePermissionedResolve ==
    /\ pc = "dispatch" /\ cli.command = "ConsumePermissioned"
    /\ ResolveOpenOrders

\* lines 381-385
ConsumePermissioned ==
    /\ pc = "consume_call" /\ cli.command = "ConsumePermissioned"
    /\ ConsumeCall("consume_events_permissioned_instruction")

\* QueryArm with `?` on the query instead of the match
QueryArm_Propagating(op, arg, found, failed) ==
    /\ \E ok \in BOOLEAN :
         /\ calls' = Append(calls, Call(op, arg, IF ok THEN "ok" ELSE "err", 0))
         /\ IF ok THEN /\ logs' = Append(logs, <<found>>)
                       /\ Finish
                  ELSE /\ Fail(<<op>>)
                       /\ UNCHANGED logs
    /\ UNCHANGED <<cli, open_orders, signature, timer>>
    /\ UNCHANGED elc_vars

\* `match <query>.await { Ok(l) => info!(..), Err(e) => eprintln!(..) }`
QueryArm(op, arg, found, failed) ==
    /\ \E ok \in BOOLEAN :
         /\ calls' = Append(calls, Call(op, arg, IF ok THEN "ok" ELSE "err", 0))
         /\ logs' = Append(logs, IF ok THEN <<found>> ELSE <<failed>>)
    /\ Finish
    /\ UNCHANGED <<cli, open_orders, signature, timer>>
    /\ UNCHANGED elc_vars

\* lines 388-397
LoadOrders ==
    /\ pc = "dispatch" /\ cli.command = "LoadOrders"
    /\ QueryArm("load_orders_for_owner", 0, "Found Program Accounts",
                "Error loading orders for owner")

\* lines 399-411
FindOpenOrders ==
    /\ pc = "dispatch" /\ cli.command = "FindOpenOrders"
    /\ QueryArm("find_open_orders_accounts_for_owner",
                [owner |-> oo_key, limit |-> 1000],
                "Found Open Orders Accounts",
                "Error finding open orders accounts")

(* ---------------- show_tx (main.rs:433-460) ---------------- *)
\* line 435: sleep(Duration::from_millis(CRANK_DELAY_MS)) begins; the call
\* record counts the milliseconds that have passed in `val`
ShowTxSleep ==
    /\ pc = "show_tx"
    /\ timer' = CRANK_DELAY_MS
    /\ calls' = Append(calls, Call("sleep", CRANK_DELAY_MS, "pending", 0))
    /\ pc' = "show_tx_sleeping"
    /\ UNCHANGED <<cli, logs, outcome, error, open_orders, signature>>
    /\ UNCHANGED elc_vars

\* time passes while the flow is suspended in the sleep
Tick ==
    /\ pc = "show_tx_sleeping"
    /\ timer > 0
    /\ timer' = timer - Min(timer, TickMs)
    /\ calls' = [calls EXCEPT ![Len(calls)].val = @ + Min(timer, TickMs)]
    /\ UNCHANGED <<cli, pc, logs, outcome, error, open_orders, signature>>
    /\ UNCHANGED elc_vars

\* SleepOver for a sleep that is not awaited: the flow goes on at once
SleepOver_NotAwaited == TRUE

\* the sleep is over once its duration has passed
SleepOver == timer = 0

\* line 435: .await returns
ShowTxWake ==
    /\ pc = "show_tx_sleeping"
    /\ SleepOver
    /\ calls' = [calls EXCEPT ![Len(calls)].res = "ok"]
    /\ pc' = "show_tx_fetch"
    /\ UNCHANGED <<cli, logs, outcome, error, open_orders, signature, timer>>
    /\ UNCHANGED elc_vars

\* fetch_transaction: Err, or Ok with a transaction that decodes or not
FetchReturns == {"err", "ok", "ok_undecodable"}

\* ShowTxFetch returning the fetch error to the caller
ShowTxFetch_Propagating ==
    /\ pc = "show_tx_fetch"
    /\ \E r \in FetchReturns :
         /\ calls' = Append(calls, Call("fetch_transaction", signature[1],
                                        IF r = "err" THEN "err" ELSE "ok", r))
         /\ CASE r = "ok" ->
                   /\ logs' = Append(logs, <<"println_transaction", signature[1]>>)
                   /\ pc' = "show_tx_ret"
                   /\ UNCHANGED <<outcome, error>>
              [] r = "ok_undecodable" ->
                   /\ outcome' = "panic"
                   /\ error' = <<"Successful decode">>
                   /\ pc' = "done"
                   /\ UNCHANGED logs
              [] OTHER ->
                   /\ Fail(<<"fetch_transaction">>)
                   /\ UNCHANGED logs
    /\ UNCHANGED <<cli, open_orders, signature, timer>>
    /\ UNCHANGED elc_vars

\* lines 437-459
ShowTxFetch ==
    /\ pc = "show_tx_fetch"
    /\ \E r \in FetchReturns :
         /\ calls' = Append(calls, Call("fetch_transaction", signature[1],
                                        IF r = "err" THEN "err" ELSE "ok", r))
         /\ CASE r = "ok" ->
                   /\ logs' = Append(logs, <<"println_transaction", signature[1]>>)
                   /\ pc' = "show_tx_ret"
                   /\ UNCHANGED <<outcome, error>>
              [] r = "ok_undecodable" ->
                   \* .decode().expect("Successful decode") panics
                   /\ outcome' = "panic"
                   /\ error' = <<"Successful decode">>
                   /\ pc' = "done"
                   /\ UNCHANGED logs
              [] OTHER ->
                   /\ logs' = Append(logs, <<"Unable to get confirmed transaction details">>)
                   /\ pc' = "show_tx_ret"
                   /\ UNCHANGED <<outcome, error>>
    /\ UNCHANGED <<cli, open_orders, signature, timer>>
    /\ UNCHANGED elc_vars

\* show_tx returned Ok(()): `?` passes, main (through handle_order_return
\* where it is the caller) reaches line 414
MainReturn ==
    /\ pc = "show_tx_ret"
    /\ Finish
    /\ UNCHANGED <<cli, calls, logs, open_orders, signature, timer>>
    /\ UNCHANGED elc_vars

(* ---------------- the invocation ---------------- *)
Init ==
    /\ cli \in Clis
    /\ pc = "main"
    /\ calls = <<>>
    /\ logs = <<>>
    /\ outcome = "running"
    /\ error = <<>>
    /\ max_instructions = 0
    /\ max_instructions_per_tx = 0
    /\ insts = <<>>
    /\ pos = 0
    /\ last_sig = None
    /\ elc_result = NotReturned
    /\ open_orders = <<>>
    /\ signature = None
    /\ timer = 0

Next ==
    \/ ParseMarketId
    \/ NewClient
    \/ Info
    \/ EventQueue
    \/ Place
    \/ CancelExecute
    \/ ELC_Build
    \/ ELC_Send
    \/ ELC_Confirmed
    \/ ELC_SendFailed
    \/ ELC_Return
    \/ CancelExecuted
    \/ CancelBuild
    \/ Settle
    \/ Match
    \/ CancelSettlePlace
    \/ CancelSettlePlaceBid
    \/ CancelSettlePlaceAsk
    \/ ConsumeResolve
    \/ Consume
    \/ ConsumePermissionedResolve
    \/ ConsumePermissioned
    \/ LoadOrders
    \/ FindOpenOrders
    \/ ShowTxSleep
    \/ Tick
    \/ ShowTxWake
    \/ ShowTxFetch
    \/ MainReturn

Spec == Init /\ [][Next]_vars

\* every invocation, together with the Cancel arm entered at its call of
\* execute_limited_cancel with any caps in place of the two constants, so that
\* batches of several chunks go through the dispatcher
InitCaps == Init \/ InitELC

SpecCaps == InitCaps /\ [][Next]_vars

(* ======================= properties ======================= *)
\* the submissions made so far, in submission order
Sends == SelectSeq(calls, LAMBDA c : c.op = "send_and_confirm")
\* the calls of the cancel builder made so far
BuilderCalls == SelectSeq(calls, LAMBDA c : c.op = "cancel_orders")

CeilDiv(a, b) == (a + b - 1) \div b

RECURSIVE Flatten(_)
\* the instructions of a sequence of submissions, concatenated
Flatten(ss) == IF ss = <<>> THEN <<>> ELSE ss[1].arg \o Flatten(Tail(ss))

\* the k-th chunk of the batch `orig` under caps G and P, by arithmetic
ExpectedChunk(orig, G, P, k) ==
    LET m == Min(Len(orig), G)
        n == IF P >= 1 THEN P ELSE 1
    IN [i \in 1..(Min(k * n, m) - (k - 1) * n) |-> orig[(k - 1) * n + i]]

\* execute_limited_cancel has returned Ok after the builder returned a batch
ELC_AllSucceeded ==
    /\ pc = "elc_ret"
    /\ elc_result.tag = "Ok"
    /\ BuilderCalls # <<>>
    /\ BuilderCalls[1].val.tag = "Instructions"

\* C1: for a batch of length L, caps G >= 0 and P >= 1, when every submission
\* succeeds execute_limited_cancel submits exactly ceil(min(L,G)/P)
\* transactions, each of at most P instructions, whose concatenation in
\* submission order is the first min(L,G) instructions in original order.
C1_ChunksCoverTruncatedBatch ==
    (ELC_AllSucceeded /\ max_instructions_per_tx >= 1) =>
        LET orig == BuilderCalls[1].val.insts
            m == Min(Len(orig), max_instructions)
        IN /\ Len(Sends) = CeilDiv(m, max_instructions_per_tx)
           /\ \A k \in 1..Len(Sends) :
                /\ Len(Sends[k].arg) <= max_instructions_per_tx
                /\ Sends[k].res = "ok"
           /\ Flatten(Sends) = [i \in 1..m |-> orig[i]]

\* C1 witness: a batch longer than the global cap, cut into three chunks the
\* last of which is partial
C1_Witness ==
    /\ ELC_AllSucceeded
    /\ max_instructions_per_tx = 2
    /\ max_instructions = 5
    /\ Len(BuilderCalls[1].val.insts) = 7
    /\ Len(Sends) = 3
    /\ Sends[3].arg = <<5>>

\* C2: if the submission of chunk k fails, exactly chunks 1..k-1 have been
\* submitted (once each, in order), no later chunk is attempted, nothing
\* follows the failed call (no undo), and the failure is returned.
C2_FailureAbortsBatch ==
    \A k \in 1..Len(Sends) :
        Sends[k].res = "err" =>
            /\ k = Len(Sends)
            /\ calls[Len(calls)] = Sends[k]
            /\ \A j \in 1..(k - 1) : Sends[j].res = "ok"
            /\ \A j \in 1..k :
                 Sends[j].arg = ExpectedChunk(BuilderCalls[1].val.insts,
                                              max_instructions,
                                              max_instructions_per_tx, j)
            /\ pc = "elc_ret"
            /\ elc_result = Err("send_and_confirm")

\* C2 witness: the third chunk fails after two were submitted, and a fourth
\* chunk was still to come
C2_Witness ==
    /\ Len(Sends) = 3
    /\ Sends[3].res = "err"
    /\ Sends[1].res = "ok" /\ Sends[2].res = "ok"
    /\ pc = "elc_ret"
    /\ Len(Flatten(Sends)) < Len(insts)

\* C3: at most one submission is in flight at any time; a submission starts
\* only after every earlier one has returned successfully, and submissions
\* follow the chunk order.
C3_OneInFlight ==
    /\ Cardinality({i \in CallsOf("send_and_confirm") :
                       calls[i].res = "pending"}) <= 1
    /\ \A k \in 1..Len(Sends) :
         /\ k < Len(Sends) => Sends[k].res = "ok"
         /\ Sends[k].arg # <<>>
         /\ k > 1 => Sends[k].arg[1] = Sends[k - 1].arg[Len(Sends[k - 1].arg)] + 1

\* C3 witness: the second chunk is in flight, the first has been confirmed
C3_Witness ==
    /\ Len(Sends) = 2
    /\ Sends[1].res = "ok"
    /\ Sends[2].res = "pending"
    /\ pc = "elc_await"

\* C4: without a failure execute_limited_cancel returns the signature of the
\* last chunk it submitted, and returns no signature, as a success with zero
\* submissions, when the builder returned nothing, an empty batch or a
\* non-batch result, or when the global cap is 0.
C4_LastSignatureOrNone ==
    (pc = "elc_ret" /\ elc_result.tag = "Ok") =>
        /\ IF Sends = <<>>
           THEN elc_result.value = None
           ELSE /\ elc_result.value = Some(Sends[Len(Sends)].val)
                /\ Sends[Len(Sends)].res = "ok"
                /\ \A k \in 1..(Len(Sends) - 1) :
                     Sends[k].val # Sends[Len(Sends)].val
        /\ (\/ BuilderCalls[1].val.tag \in {"None", "Signature"}
            \/ BuilderCalls[1].val.insts = <<>>
            \/ max_instructions = 0) => (Sends = <<>> /\ elc_result = Ok(None))

\* C4 witness: three chunks submitted, the third one's signature returned
C4_Witness ==
    /\ pc = "elc_ret"
    /\ Len(Sends) = 3
    /\ elc_result = Ok(Some(Sends[3].val))

(* ---------------- the open-orders resolver ---------------- *)
ConsumeOps == {"consume_events_instruction",
               "consume_events_permissioned_instruction"}
ConsumeCalls == {i \in 1..Len(calls) : calls[i].op \in ConsumeOps}
ScanCalls == CallsOf("collect_event_queue_open_orders")
IsConsume == cli.command \in {"Consume", "ConsumePermissioned"}

\* the entries of the explicit list that are not account references
Malformed == {k \in 1..Len(cli.open_orders) : ~Pubkey_from_str(cli.open_orders[k]).ok}
FirstMalformed == cli.open_orders[CHOOSE k \in Malformed : \A j \in Malformed : k <= j]

\* the invocation got as far as resolving the accounts (lines 351, 370)
ResolutionDone ==
    /\ IsConsume
    /\ pc \notin {"main", "new_client", "dispatch"}
    /\ ~(outcome = "err" /\ error[1] \in {"market_id", "OBClient::new"})

C6_ScanOnlyWithoutExplicitList ==
    /\ Cardinality(ScanCalls) <= 1
    /\ \A j \in ScanCalls :
         /\ IsConsume
         /\ cli.open_orders = <<>>
         /\ calls[j].arg = cli.limit
    /\ (ResolutionDone /\ cli.open_orders = <<>>) => Cardinality(ScanCalls) = 1

\* C6 witness: three valid explicit references and limit 10, the consume call
\* is made on them and no scan was made
C6_Witness ==
    /\ cli.command = "Consume"
    /\ cli.limit = 10
    /\ cli.open_orders = <<"key1", "key2", "key1">>
    /\ \E i \in ConsumeCalls : calls[i].arg.accounts = <<1, 2, 1>>
    /\ ScanCalls = {}

\* C7: if an entry of a non-empty explicit list is malformed, no list is
\* produced, the consume call, the settle delay and the fetch never happen,
\* the invocation ends in failure, and the resolution's error names the first
\* malformed entry.
C7_MalformedEntryFailsResolution ==
    (IsConsume /\ Malformed # {}) =>
        /\ open_orders = <<>>
        /\ ConsumeCalls = {}
        /\ CallsOf("sleep") = {}
        /\ CallsOf("fetch_transaction") = {}
        /\ pc = "done" => outcome = "err"
        /\ ResolutionDone =>
             /\ pc = "done"
             /\ error = <<"Invalid open orders pubkey", FirstMalformed>>

\* C7 witness: the second and third entries are malformed, the error names
\* the second
C7_Witness ==
    /\ IsConsume
    /\ cli.open_orders = <<"key1", "0OIl", "bad!">>
    /\ outcome = "err"
    /\ error = <<"Invalid open orders pubkey", "0OIl">>

\* C8: an input error (malformed account reference, unparseable market
\* identifier) ends the invocation before any network call: no client
\* construction, query, scan or submission precedes it.
C8_InputErrorBeforeAnyNetworkCall ==
    (outcome = "err" /\ error[1] \in {"market_id", "Invalid open orders pubkey"})
        => calls = <<>>

(* ---------------- the confirmation waiter ---------------- *)
FetchCalls == CallsOf("fetch_transaction")

\* C9: every fetch is preceded by the settle delay, run to its full constant
\* length whatever the fetch then returns; show_tx issues exactly one fetch.
C9_FullDelayBeforeFetch ==
    /\ \A i \in FetchCalls :
         /\ i > 1
         /\ calls[i - 1].op = "sleep"
         /\ calls[i - 1].arg = CRANK_DELAY_MS
         /\ calls[i - 1].res = "ok"
         /\ calls[i - 1].val = CRANK_DELAY_MS
    /\ Cardinality(FetchCalls) <= 1
    /\ Cardinality(CallsOf("sleep")) <= 1
    /\ (signature # None /\ pc \in {"show_tx_ret", "done"})
          => Cardinality(FetchCalls) = 1

\* C9 witness: a fetch that failed, after the whole delay
C9_Witness ==
    \E i \in FetchCalls :
        /\ calls[i].res = "err"
        /\ calls[i - 1].op = "sleep"
        /\ calls[i - 1].val = CRANK_DELAY_MS

\* C10: a failed fetch is only logged: show_tx returns Ok, the fetch is not
\* retried, and the invocation ends with a success outcome.
C10_FetchFailureIsLogged ==
    \A i \in FetchCalls :
        calls[i].res = "err" =>
            /\ i = Len(calls)
            /\ FetchCalls = {i}
            /\ pc \in {"show_tx_ret", "done"}
            /\ logs[Len(logs)] = <<"Unable to get confirmed transaction details">>
            /\ error = <<>>
            /\ outcome = IF pc = "done" THEN "ok" ELSE "running"

\* C10 witness: the invocation is over with a success outcome after a failed
\* fetch
C10_Witness ==
    /\ pc = "done"
    /\ outcome = "ok"
    /\ \E i \in FetchCalls : calls[i].res = "err"

(* ---------------- the dispatcher ---------------- *)
PairOps == {"match_orders_transaction", "cancel_settle_place",
            "cancel_settle_place_bid", "cancel_settle_place_ask"} \cup ConsumeOps
PairCalls == {i \in 1..Len(calls) : calls[i].op \in PairOps}
SleepCalls == CallsOf("sleep")

\* C11: when a composite call returns (confirmed, signature), show_tx is run
\* exactly once, on that signature, whatever the flag is; the flag changes
\* neither the calls that follow nor the outcome.
C11_PairAlwaysWaited ==
    \A i \in PairCalls :
        calls[i].res = "ok" =>
            /\ PairCalls = {i}
            /\ signature = Some(calls[i].val.sig)
            /\ pc \in {"show_tx", "show_tx_sleeping", "show_tx_fetch",
                       "show_tx_ret", "done"}
            /\ outcome # "err"
            /\ Cardinality(SleepCalls) = IF pc = "show_tx" THEN 0 ELSE 1
            /\ \A j \in SleepCalls : j = i + 1
            /\ Cardinality(FetchCalls) =
                 IF pc \in {"show_tx_ret", "done"} THEN 1 ELSE 0
            /\ \A j \in FetchCalls : j = i + 2 /\ calls[j].arg = calls[i].val.sig

\* C11 witness: a composite call returned an unconfirmed signature and the
\* transaction of that signature was fetched after the delay
C11_Witness ==
    \E i \in PairCalls :
        /\ calls[i].res = "ok"
        /\ ~calls[i].val.confirmed
        /\ \E j \in FetchCalls : calls[j].arg = calls[i].val.sig

ActionResultOps == {"place_limit_order", "settle_balance", "cancel_orders"}
\* the calls that returned an Action Result carrying a signature
SignatureResults ==
    {i \in 1..Len(calls) : /\ calls[i].op \in ActionResultOps
                           /\ calls[i].res = "ok"
                           /\ calls[i].val.tag = "Signature"}

\* C12: Place without execute handles an instruction batch, never a
\* signature, and makes no settle delay, fetch or submission; for Place and
\* Settle show_tx runs if and only if the Action Result carries a signature.
C12_DryRunNeverWaits ==
    /\ (cli.command = "Place" /\ ~cli.execute) =>
          /\ SignatureResults = {}
          /\ signature = None
          /\ SleepCalls = {}
          /\ FetchCalls = {}
          /\ Sends = <<>>
    /\ cli.command \in {"Place", "Settle"} =>
          /\ signature # None <=> SignatureResults # {}
          /\ SleepCalls # {} => SignatureResults # {}
          /\ FetchCalls # {} => SignatureResults # {}
          /\ \A i \in SignatureResults :
               /\ signature = Some(calls[i].val.sig)
               /\ outcome # "err"
               /\ pc \in {"show_tx_ret", "done"} =>
                    (Cardinality(SleepCalls) = 1 /\ Cardinality(FetchCalls) = 1)

\* C12 witness: Place without execute got a batch of instructions, printed
\* it and ended without any wait
C12_Witness ==
    /\ cli.command = "Place"
    /\ ~cli.execute
    /\ pc = "done"
    /\ outcome = "ok"
    /\ \E i \in CallsOf("place_limit_order") :
         calls[i].val.tag = "Instructions" /\ Len(calls[i].val.insts) = 2
    /\ logs = <<<<"Got Instructions", <<1, 2>>>>>>
    /\ SleepCalls = {}

ReadOnlyCommands == {"Info", "EventQueue", "LoadOrders", "FindOpenOrders"}
QueryOps == {"fetch_event_queue_stats", "load_orders_for_owner",
             "find_open_orders_accounts_for_owner"}
FailedQueries == {i \in 1..Len(calls) : calls[i].op \in QueryOps /\ calls[i].res = "err"}

\* C14: for the read-only intents (Info, EventQueue, LoadOrders,
\* FindOpenOrders) a failure of the intent's query is reported and the
\* invocation does not end in failure.
C14_ReadOnlyQueryFailureNotFatal ==
    (cli.command \in ReadOnlyCommands /\ FailedQueries # {}) =>
        (outcome = "ok" /\ logs # <<>>)

DiscoveryOps == {"load_orders_for_owner", "find_open_orders_accounts_for_owner"}
DiscoveryCalls == {i \in 1..Len(calls) : calls[i].op \in DiscoveryOps}

\* C15: for LoadOrders and FindOpenOrders the invocation ends with a success
\* outcome whether the discovery query succeeds or fails, and it makes no
\* submission, no settle delay and no fetch.
C15_DiscoveryAlwaysSucceeds ==
    cli.command \in {"LoadOrders", "FindOpenOrders"} =>
        /\ Sends = <<>>
        /\ SleepCalls = {}
        /\ FetchCalls = {}
        /\ Cardinality(DiscoveryCalls) <= 1
        /\ \A i \in DiscoveryCalls :
             /\ calls[i].op = IF cli.command = "LoadOrders"
                              THEN "load_orders_for_owner"
                              ELSE "find_open_orders_accounts_for_owner"
             /\ i = Len(calls)
             /\ pc = "done"
             /\ outcome = "ok"
             /\ error = <<>>
             /\ logs = IF calls[i].res = "ok"
                       THEN IF cli.command = "LoadOrders"
                            THEN <<<<"Found Program Accounts">>>>
                            ELSE <<<<"Found Open Orders Accounts">>>>
                       ELSE IF cli.command = "LoadOrders"
                            THEN <<<<"Error loading orders for owner">>>>
                            ELSE <<<<"Error finding open orders accounts">>>>

\* C15 witness: FindOpenOrders whose query failed, ended with success
C15_Witness ==
    /\ cli.command = "FindOpenOrders"
    /\ \E i \in DiscoveryCalls : calls[i].res = "err"
    /\ pc = "done"
    /\ outcome = "ok"

MutatingCommands == {"Place", "Cancel", "Settle", "Match", "CancelSettlePlace",
                     "CancelSettlePlaceBid", "CancelSettlePlaceAsk", "Consume",
                     "ConsumePermissioned"}
\* the calls a mutating intent makes: collaborator call, submission, scan
MutatingOps == ActionResultOps \cup PairOps
               \cup {"send_and_confirm", "collect_event_queue_open_orders"}
FailedMutatingCalls ==
    {i \in 1..Len(calls) : calls[i].op \in MutatingOps /\ calls[i].res = "err"}

\* C16: for a mutating intent a failed collaborator call, chunk submission or
\* queue scan ends the invocation with a failure outcome, and no collaborator
\* call, settle delay or fetch follows the failing call.
C16_MutatingFailureIsFatal ==
    \A i \in FailedMutatingCalls :
        /\ cli.command \in MutatingCommands
        /\ i = Len(calls)
        /\ SleepCalls = {}
        /\ FetchCalls = {}
        /\ signature = None
        /\ pc \in {"elc_ret", "done"}
        /\ pc = "elc_ret" => (outcome = "running" /\ elc_result = Err(calls[i].op))
        /\ pc = "done" => (outcome = "err" /\ error = <<calls[i].op>>)

\* C16 witness: Cancel with execute whose chunk submission failed, ended in
\* failure
C16_Witness ==
    /\ cli.command = "Cancel"
    /\ pc = "done"
    /\ outcome = "err"
    /\ error = <<"send_and_confirm">>
    /\ calls[Len(calls)].op = "send_and_confirm"
    /\ calls[Len(calls)].res = "err"

\* the operations that are not chunk submissions
SingleOps == {"OBClient::new", "fetch_event_queue_stats", "fetch_transaction",
              "sleep"} \cup ActionResultOps \cup PairOps \cup DiscoveryOps
             \cup {"collect_event_queue_open_orders"}
SendCalls == CallsOf("send_and_confirm")

\* C17: no retries: in an invocation every collaborator operation is called
\* at most once, and in the batch submitter every instruction is in at most
\* one submitted transaction and every chunk is submitted at most once, also
\* after a failure.
C17_NoRetries ==
    /\ \A i \in 1..Len(calls) : calls[i].op \in SingleOps \cup {"send_and_confirm"}
    /\ \A i, j \in 1..Len(calls) :
         (calls[i].op = calls[j].op /\ calls[i].op \in SingleOps) => i = j
    /\ \A i, j \in SendCalls :
         i # j => \A a \in 1..Len(calls[i].arg), b \in 1..Len(calls[j].arg) :
                     calls[i].arg[a] # calls[j].arg[b]
    /\ \A i \in SendCalls :
         /\ \A a, b \in 1..Len(calls[i].arg) :
              a # b => calls[i].arg[a] # calls[i].arg[b]
         /\ calls[i].res = "err" => \A j \in SendCalls : j <= i
    /\ Cardinality(PairCalls) <= 1

\* C17 witness: three chunks were sent, the third failed and the invocation
\* is over
C17_Witness ==
    /\ pc = "done"
    /\ outcome = "err"
    /\ Len(Sends) = 3
    /\ Sends[3].res = "err"
    /\ Len(Sends[3].arg) = 2

\* C18: show_tx runs at most once in an invocation, after every submission
\* has returned; for Cancel with several chunks the one delay and fetch follow
\* the last chunk and use its signature only, never an earlier chunk's.
C18_WaitOnceAfterLastChunk ==
    /\ Cardinality(SleepCalls) <= 1
    /\ Cardinality(FetchCalls) <= 1
    /\ \A s \in SleepCalls :
         /\ \A i \in 1..Len(calls) :
              IF i < s THEN calls[i].res = "ok" /\ calls[i].op # "fetch_transaction"
              ELSE i > s => calls[i].op = "fetch_transaction"
         /\ signature # None
    /\ \A f \in FetchCalls :
         /\ \E s \in SleepCalls : s = f - 1
         /\ calls[f].arg = signature[1]
         /\ Sends # <<>> =>
              /\ calls[f].arg = Sends[Len(Sends)].val
              /\ \A k \in 1..(Len(Sends) - 1) : calls[f].arg # Sends[k].val
    /\ (signature # None /\ Sends # <<>>) =>
         /\ signature = Some(Sends[Len(Sends)].val)
         /\ \A k \in 1..Len(Sends) : Sends[k].res = "ok"
         /\ pc \notin {"elc_entry", "elc_loop", "elc_await"}

\* C18 witness: Cancel sent three chunks, then one delay and one fetch, of the
\* third chunk's signature
C18_Witness ==
    /\ cli.command = "Cancel"
    /\ pc = "done"
    /\ Len(Sends) = 3
    /\ Cardinality(SleepCalls) = 1
    /\ \E f \in FetchCalls : calls[f].arg = Sends[3].val

\* C19: once show_tx has been entered the invocation always ends with a
\* success outcome, on every path of show_tx, the path that fetches, decodes
\* and renders the transaction included.
C19_WaiterNeverFails ==
    (signature # None /\ pc = "done") => outcome = "ok"

\* the side strings that read "ask" when case is ignored
AskStrings == {"ask", "ASK"}
PlaceCalls == CallsOf("place_limit_order")

\* C20: Place maps its side case-insensitively: "ask" gives Ask, any other
\* string gives Bid; an unrecognized side is no input error and the place
\* call is still issued, as a bid.
C20_SideDefaultsToBid ==
    cli.command = "Place" =>
        /\ \A i \in PlaceCalls :
             /\ calls[i].arg.side = IF cli.side \in AskStrings THEN "Ask" ELSE "Bid"
             /\ calls[i].arg.execute = cli.execute
        /\ outcome = "err" =>
             error[1] \in {"market_id", "OBClient::new", "place_limit_order"}
        /\ (\E i \in 1..Len(calls) : calls[i].op = "OBClient::new" /\ calls[i].res = "ok")
             => (pc = "dispatch" \/ Cardinality(PlaceCalls) = 1)

\* C20 witness: the side "buy" is neither bid nor ask, the place call was
\* issued as a bid and succeeded
C20_Witness ==
    /\ cli.command = "Place"
    /\ cli.side = "buy"
    /\ \E i \in PlaceCalls : calls[i].arg.side = "Bid" /\ calls[i].res = "ok"
    /\ pc = "done"
    /\ outcome = "ok"

====
